---------------------------- MODULE Spec2Model ----------------------------
(***************************************************************************)
(* The concurrent web-fetch engine of                                      *)
(* src/etl/data_collection/playwright_scraper_utils.py:                    *)
(*   - ConcurrentPlaywrightScraper (browser/context pool, semaphore,       *)
(*     search_business_optimized, _wait_for_results_smart,                 *)
(*     search_multiple_businesses),                                        *)
(*   - batch_search_businesses (the batch orchestrator).                   *)
(*                                                                         *)
(* The specifications of the module:                                       *)
(*   Spec          the orchestrator and its Fetch Tasks on one event loop  *)
(*   SpecWide      the same program over longer lists and larger pools     *)
(*   SpecBatches   the orchestrator alone, each gather taken as one step,  *)
(*                 for longer input lists                                  *)
(*   SpecDetector  one run of _wait_for_results_smart against a DOM that   *)
(*                 changes over time                                       *)
(*   SpecLive      Spec on a fair event loop, the clock not followed       *)
(*   SpecFetch     one run of search_business_optimized, call by call      *)
(*   SpecClose     one run of close(), call by call                        *)
(*   SpecStart     one run of start(), call by call                        *)
(*   SpecPaginator the page loop of scrape_federal_corporations.main       *)
(***************************************************************************)
EXTENDS Integers, Sequences, FiniteSets, TLC

(***************************************************************************)
(* Bounds of the model.                                                    *)
(***************************************************************************)
MaxNames == 2
MaxBatch == 2
MaxBrowsers == 1
MaxClock == 1
MaxNamesWide == 3
MaxBatchWide == 3
MaxBrowsersWide == 2
MaxBatchNames == 7
MaxSlice == 3
MaxAppear == 32
MaxPages == 4
MaxPermits == 6
MaxPool == 4
MaxRecords == 2

(***************************************************************************)
(* Program constants.                                                      *)
(***************************************************************************)
MAX_CONCURRENT_SEARCHES == 5
BROWSER_POOL_SIZE == 3

SUBMIT_ERROR == "Could not find or click the search button"
PAGE_CONTENT == "<html>"

\* The names of the module's own example run (test_businesses).
test_businesses ==
    << "MTD Products Limited", "Union Co-op", "Concordia Club",
       "Grand River Hospital", "University of Waterloo" >>

VARIABLES
    caller,             \* "batch_search_businesses" | "search_multiple_businesses"
    business_names,     \* the input list
    batch_size,         \* batch_search_businesses' batch_size
    max_concurrent,     \* self.max_concurrent
    browser_pool_size,  \* self.browser_pool_size
    browser_pool,       \* self.browser_pool: sequence of [open]
    context_pool,       \* self.context_pool: sequence of [browser, open]
    semaphore,          \* self.semaphore: free permits
    waiters,            \* self.semaphore's FIFO queue of suspended acquirers
    orch,               \* position of the orchestrator coroutine
    batch_i,            \* the loop variable i of batch_search_businesses
    batches,            \* the batches handed to search_multiple_businesses so far
    all_results,        \* all_results
    pauses,             \* number of asyncio.sleep(2) performed
    raised,             \* the exception that left the orchestrator, or "none"
    closes,             \* number of calls of close()
    now,                \* time.time(), in seconds
    task,               \* the Fetch Tasks created so far, by input position
    pages,              \* input positions whose task has a page open
    wait,               \* one run of _wait_for_results_smart (SpecDetector)
    fetch,              \* one run of search_business_optimized (SpecFetch)
    shutdown,           \* one run of close() (SpecClose)
    http                \* one run of the HTTP paginator (SpecPaginator)

vars == << caller, business_names, batch_size, max_concurrent, browser_pool_size,
           browser_pool, context_pool, semaphore, waiters, orch, batch_i, batches,
           all_results, pauses, raised, closes, now, task, pages, wait, fetch,
           shutdown, http >>

config == << caller, business_names, batch_size, max_concurrent, browser_pool_size >>

\* The coroutines that are followed step by step in specifications of their
\* own, and the variables of the orchestrator and its tasks.
followed == << wait, fetch, shutdown, http >>

program == << caller, business_names, batch_size, max_concurrent, browser_pool_size,
              browser_pool, context_pool, semaphore, waiters, orch, batch_i,
              batches, all_results, pauses, raised, closes, now, task, pages >>

\* What an action of the orchestrator leaves alone besides its own variables.
pool == << browser_pool, context_pool >>
sem == << semaphore, waiters >>

Max(a, b) == IF a >= b THEN a ELSE b
Min(a, b) == IF a <= b THEN a ELSE b

\* The first n names of an input list built from test_businesses.
NameAt(k) == test_businesses[((k - 1) % Len(test_businesses)) + 1]
NameList(n) == [k \in 1..n |-> NameAt(k)]

N == Len(business_names)

(***************************************************************************)
(* SearchResult (dataclass) and the two ways the code builds one.          *)
(***************************************************************************)
SearchResult(name, html, ok, msg, elapsed) ==
    [business_name |-> name, html_content |-> html, success |-> ok,
     error_message |-> msg, search_time |-> elapsed]

\* lines 184-189: the success return of search_business_optimized
SuccessResult(name, html, elapsed) == SearchResult(name, html, TRUE, "", elapsed)

\* lines 194-203: the except clause of search_business_optimized
FailureResult(name, msg, elapsed) == SearchResult(name, "", FALSE, msg, elapsed)

(***************************************************************************)
(* start(): the pool.                                                      *)
(***************************************************************************)
\* Mutant of contexts_per_browser: the quotient is rounded up.
contexts_per_browser_up(mc, bps) == Max(1, (mc + bps - 1) \div bps)

\* line 77
contexts_per_browser(mc, bps) == Max(1, mc \div bps)

\* start() performs, per browser, one launch and contexts_per_browser
\* new_context calls.  LaunchOps is the number of such calls of a full start().
LaunchOps(mc, bps) ==
    IF bps = 0 THEN 0 ELSE bps * (1 + contexts_per_browser(mc, bps))

\* Pools after the first k calls of start() succeeded.
BrowsersAfter(mc, bps, k) ==
    IF bps = 0 THEN 0
    ELSE (k + contexts_per_browser(mc, bps)) \div (1 + contexts_per_browser(mc, bps))

ContextsAfter(mc, bps, k) == k - BrowsersAfter(mc, bps, k)

BrowserPoolAfter(mc, bps, k) ==
    [b \in 1..BrowsersAfter(mc, bps, k) |-> [open |-> TRUE]]

ContextPoolAfter(mc, bps, k) ==
    [c \in 1..ContextsAfter(mc, bps, k) |->
        [browser |-> ((c - 1) \div contexts_per_browser(mc, bps)) + 1,
         open |-> TRUE]]

(***************************************************************************)
(* Fetch Tasks.  A task is a record                                        *)
(*   pc          "created" | "waiting" | "acquired" | "page" | "closing"   *)
(*               | "done"                                                  *)
(*   business_name  the business_name argument                             *)
(*   context_id  the context_id argument                                   *)
(*   start_time  start_time                                                *)
(*   pending     what the inner try block produced: a SearchResult (the    *)
(*               return value on its way out through finally), or          *)
(*               [exception |-> msg] (an exception on its way out)         *)
(*   result      what the coroutine returned to gather                     *)
(*   fault       the call that raised in this task, or "none"              *)
(***************************************************************************)
NoValue == [none |-> TRUE]

IsException(r) == "exception" \in DOMAIN r

NewTask(name, cid) ==
    [pc |-> "created", business_name |-> name, context_id |-> cid,
     start_time |-> 0, pending |-> NoValue, result |-> NoValue,
     fault |-> "none"]

\* The input positions of the batch handed to gather last.
CurrentBatch == IF batches = << >> THEN {} ELSE batches[Len(batches)]

InFlight(k) == k \in DOMAIN task /\ task[k].pc # "done"

\* Between new_page() and page.close(): the task has a page open on its context.
HasPage(k) == k \in pages

\* Between the semaphore's acquire and its release.
HoldsPermit(k) == k \in DOMAIN task /\ task[k].pc \in {"acquired", "page", "closing"}

\* line 120: the context the task uses
ContextOf(k) == (task[k].context_id % Len(context_pool)) + 1


(***************************************************************************)
(* The steps of search_business_optimized that can raise while the page is *)
(* open (lines 123-189), and the message of the exception each raises.     *)
(***************************************************************************)
PageSteps == << "goto", "fill", "submit", "load_state", "content" >>

PageFaults == { PageSteps[s] : s \in 1..Len(PageSteps) }

\* Mutant of ErrorMessage: every failure carries the driver's error.
ErrorMessageOfDriver(f) == f

\* str(e): line 170 raises Exception(SUBMIT_ERROR); the other steps raise
\* the browser driver's error for that call.
ErrorMessage(f) == IF f = "submit" THEN SUBMIT_ERROR ELSE f

(***************************************************************************)
(* asyncio.Semaphore                                                       *)
(***************************************************************************)
\* Mutant of Locked: the semaphore never makes an acquirer wait.
LockedNever == FALSE

\* Semaphore.locked(): no permit is free, or earlier acquirers are queued
Locked == semaphore = 0 \/ waiters # << >>

\* Semaphore.release()
Released == semaphore + 1

\* _wait_for_results_smart is not followed in Spec.
IdleWait == [pc |-> "idle"]

\* Nothing is followed step by step but the coroutine of the specification.
OnlyWait == fetch = IdleWait /\ shutdown = IdleWait /\ http = IdleWait
NoneFollowed == wait = IdleWait /\ OnlyWait

(***************************************************************************)
(* Initial state: the scraper object is constructed (lines 35-43), nothing *)
(* is started.                                                             *)
(***************************************************************************)
InitConfig(maxNames, maxBatch, maxBrowsers) ==
    /\ \E n \in 0..maxNames : business_names = NameList(n)
    /\ \/ /\ caller = "batch_search_businesses"
          /\ batch_size \in 1..maxBatch
          /\ max_concurrent = batch_size                 \* line 282
          /\ browser_pool_size = BROWSER_POOL_SIZE       \* line 36
       \/ /\ caller = "search_multiple_businesses"
          /\ batch_size = 0                              \* unused
          /\ max_concurrent \in 1..maxBatch
          /\ browser_pool_size \in 0..maxBrowsers

InitScraper ==
    /\ browser_pool = << >>
    /\ context_pool = << >>
    /\ semaphore = max_concurrent
    /\ waiters = << >>
    /\ orch = "new"
    /\ batch_i = 0
    /\ batches = << >>
    /\ all_results = << >>
    /\ pauses = 0
    /\ raised = "none"
    /\ closes = 0
    /\ now = 0
    /\ task = << >>
    /\ pages = {}

Init ==
    /\ InitConfig(MaxNames, MaxBatch, MaxBrowsers)
    /\ InitScraper
    /\ NoneFollowed

InitWide ==
    /\ InitConfig(MaxNamesWide, MaxBatchWide, MaxBrowsersWide)
    /\ InitScraper
    /\ NoneFollowed

(***************************************************************************)
(* __aenter__ / start()                                                    *)
(***************************************************************************)
\* Every launch and new_context call succeeds.
StartOk ==
    /\ orch = "new"
    /\ browser_pool' = BrowserPoolAfter(max_concurrent, browser_pool_size,
                                        LaunchOps(max_concurrent, browser_pool_size))
    /\ context_pool' = ContextPoolAfter(max_concurrent, browser_pool_size,
                                        LaunchOps(max_concurrent, browser_pool_size))
    /\ orch' = "entered"
    /\ UNCHANGED << config, sem, batch_i, batches, all_results, pauses, raised,
                    closes, now, task, pages, followed >>

\* The (k+1)-th launch or new_context call raises: start() propagates it,
\* __aenter__ does not return and __aexit__ is never called.
StartFails ==
    /\ orch = "new"
    /\ \E k \in 0..(LaunchOps(max_concurrent, browser_pool_size) - 1) :
         /\ browser_pool' = BrowserPoolAfter(max_concurrent, browser_pool_size, k)
         /\ context_pool' = ContextPoolAfter(max_concurrent, browser_pool_size, k)
    /\ orch' = "raised"
    /\ raised' = "start"
    /\ UNCHANGED << config, sem, batch_i, batches, all_results, pauses, closes,
                    now, task, pages, followed >>

(***************************************************************************)
(* batch_search_businesses' loop and search_multiple_businesses            *)
(***************************************************************************)
\* Mutant of BatchRange: the slice ends one name early.
BatchRangeShort(i, bs) == (i + 1)..Min(i + bs - 1, N)

\* line 284: business_names[i:i + batch_size], as input positions (1-based)
BatchRange(i, bs) == (i + 1)..Min(i + bs, N)

\* Mutant of NeedsPause: the pause is also made after a last, full batch.
NeedsPauseInclusive(i, bs) == i + bs <= N

\* line 291
NeedsPause(i, bs) == i + bs < N

\* lines 249-253: one coroutine per name of the batch, context_id = i % len(pool)
CreateTasks(positions) ==
    [k \in positions |->
        NewTask(business_names[k],
                (k - (CHOOSE f \in positions : \A j \in positions : f <= j))
                    % Len(context_pool))]

\* Mutant of CallSearchMultiple: the ZeroDivisionError leaves the program
\* without passing through __aexit__.
CallSearchMultipleNoExit(positions) ==
    IF positions # {} /\ Len(context_pool) = 0
    THEN /\ raised' = "ZeroDivisionError"
         /\ orch' = "raised"
         /\ UNCHANGED << task, batches >>
    ELSE /\ task' = task @@ CreateTasks(positions)
         /\ batches' = Append(batches, positions)
         /\ orch' = "gather"
         /\ UNCHANGED raised

\* search_multiple_businesses(batch) up to the await of gather.  With an empty
\* context pool and a non-empty batch, line 251 raises ZeroDivisionError.
CallSearchMultiple(positions) ==
    IF positions # {} /\ Len(context_pool) = 0
    THEN /\ raised' = "ZeroDivisionError"
         /\ orch' = "exiting"
         /\ UNCHANGED << task, batches >>
    ELSE /\ task' = task @@ CreateTasks(positions)
         /\ batches' = Append(batches, positions)
         /\ orch' = "gather"
         /\ UNCHANGED raised

\* line 283: the next value of range(0, len(business_names), batch_size)
NextBatch ==
    /\ orch = "entered"
    /\ caller = "batch_search_businesses"
    /\ batch_i < N
    /\ CallSearchMultiple(BatchRange(batch_i, batch_size))
    /\ UNCHANGED << config, pool, sem, batch_i, all_results, pauses, closes, now,
                    pages, followed >>

\* Mutant of LoopEnds: the loop may also end after any batch.
LoopEndsEarly ==
    /\ orch = "entered"
    /\ caller = "batch_search_businesses"
    /\ batch_i >= N \/ batch_i > 0
    /\ orch' = "exiting"
    /\ UNCHANGED << config, pool, sem, batch_i, batches, all_results, pauses,
                    raised, closes, now, task, pages, followed >>

\* line 283: the range is exhausted; the async with block is left
LoopEnds ==
    /\ orch = "entered"
    /\ caller = "batch_search_businesses"
    /\ batch_i >= N
    /\ orch' = "exiting"
    /\ UNCHANGED << config, pool, sem, batch_i, batches, all_results, pauses,
                    raised, closes, now, task, pages, followed >>

\* A caller that uses the scraper itself:
\*   async with ConcurrentPlaywrightScraper(mc, bps) as s:
\*       results = await s.search_multiple_businesses(names)
DirectCall ==
    /\ orch = "entered"
    /\ caller = "search_multiple_businesses"
    /\ CallSearchMultiple(1..N)
    /\ UNCHANGED << config, pool, sem, batch_i, all_results, pauses, closes, now,
                    pages, followed >>

\* Mutant of GatherDone: the tasks are created and not awaited.
GatherNotAwaited == CurrentBatch \subseteq DOMAIN task

\* line 256: gather returns once every awaitable has finished
GatherDone == \A k \in CurrentBatch : task[k].pc = "done"

\* lines 260-269
ProcessResult(r, name) ==
    IF IsException(r) THEN SearchResult(name, "", FALSE, r.exception, 0) ELSE r

\* The positions of a batch in increasing order.
RECURSIVE Ordered(_)
Ordered(S) ==
    IF S = {} THEN << >>
    ELSE LET m == CHOOSE x \in S : \A y \in S : x <= y
         IN << m >> \o Ordered(S \ {m})

\* Mutant of BatchResults: failed outcomes are left out of the result list.
BatchResultsWithoutFailures ==
    LET ks == Ordered({ k \in CurrentBatch : task[k].result.success })
    IN [p \in 1..Len(ks) |-> task[ks[p]].result]

\* lines 256-271: the results of gather, in the order of the tasks
BatchResults ==
    LET ks == Ordered(CurrentBatch)
    IN [p \in 1..Len(ks) |-> ProcessResult(task[ks[p]].result, business_names[ks[p]])]

\* lines 287-291: search_multiple_businesses returns, the results are appended
Join ==
    /\ orch = "gather"
    /\ GatherDone
    /\ all_results' = all_results \o BatchResults
    /\ IF caller = "batch_search_businesses"
       THEN IF NeedsPause(batch_i, batch_size)
            THEN orch' = "pause" /\ UNCHANGED batch_i
            ELSE orch' = "entered" /\ batch_i' = batch_i + batch_size
       ELSE orch' = "exiting" /\ UNCHANGED batch_i
    /\ UNCHANGED << config, pool, sem, batches, pauses, raised, closes, now, task,
                    pages, followed >>

\* lines 292-293: asyncio.sleep(2), then the next iteration
Pause ==
    /\ orch = "pause"
    /\ pauses' = pauses + 1
    /\ batch_i' = batch_i + batch_size
    /\ orch' = "entered"
    /\ UNCHANGED << config, pool, sem, batches, all_results, raised, closes, now,
                    task, pages, followed >>

(***************************************************************************)
(* __aexit__ / close()                                                     *)
(***************************************************************************)
Close ==
    /\ orch = "exiting"
    /\ context_pool' = [c \in DOMAIN context_pool |-> [context_pool[c] EXCEPT !.open = FALSE]]
    /\ browser_pool' = [b \in DOMAIN browser_pool |-> [browser_pool[b] EXCEPT !.open = FALSE]]
    /\ closes' = closes + 1
    /\ orch' = IF raised = "none" THEN "returned" ELSE "raised"
    /\ UNCHANGED << config, sem, batch_i, batches, all_results, pauses, raised,
                    now, task, pages, followed >>

(***************************************************************************)
(* search_business_optimized, one action per stretch between suspension    *)
(* points that touch shared state.                                         *)
(***************************************************************************)
\* The event loop runs the first step of the tasks of a gather in the order
\* in which they were created.
MayBegin(k) == \A j \in DOMAIN task : j < k => task[j].pc # "created"

\* lines 115-117: start_time is taken, then the semaphore is acquired at once
\* when it is not locked; otherwise the task queues up.
BeginTask(k) ==
    /\ k \in DOMAIN task
    /\ task[k].pc = "created"
    /\ MayBegin(k)
    /\ IF Locked
       THEN /\ task' = [task EXCEPT ![k].pc = "waiting", ![k].start_time = now]
            /\ waiters' = Append(waiters, k)
            /\ UNCHANGED semaphore
       ELSE /\ task' = [task EXCEPT ![k].pc = "acquired", ![k].start_time = now]
            /\ semaphore' = semaphore - 1
            /\ UNCHANGED waiters
    /\ UNCHANGED << config, pool, orch, batch_i, batches, all_results, pauses,
                    raised, closes, now, pages, followed >>

\* Mutant of MayAcquire: a release wakes no waiter.
MayAcquireNever(k) == FALSE

\* line 117: a queued acquirer is woken, first come first served, and takes
\* the permit.
MayAcquire(k) == semaphore > 0 /\ waiters # << >> /\ Head(waiters) = k

AcquireWaiter(k) ==
    /\ k \in DOMAIN task
    /\ task[k].pc = "waiting"
    /\ MayAcquire(k)
    /\ semaphore' = semaphore - 1
    /\ waiters' = Tail(waiters)
    /\ task' = [task EXCEPT ![k].pc = "acquired"]
    /\ UNCHANGED << config, pool, orch, batch_i, batches, all_results, pauses,
                    raised, closes, now, pages, followed >>

\* Mutant of Caught: no except clause, the exception leaves the coroutine.
CaughtPropagates(k, msg) == [exception |-> msg]

\* What the coroutine returns when exception msg reaches the outer except
\* clause (lines 194-203).
Caught(k, msg) == FailureResult(task[k].business_name, msg, now - task[k].start_time)

\* lines 120-121: the context is selected and new_page() returns a page ...
OpenPage(k) ==
    /\ k \in DOMAIN task
    /\ task[k].pc = "acquired"
    /\ task' = [task EXCEPT ![k].pc = "page"]
    /\ pages' = pages \cup {k}
    /\ UNCHANGED << config, pool, sem, orch, batch_i, batches, all_results, pauses,
                    raised, closes, now, followed >>

\* ... or new_page() raises: no page was opened, the except clause builds the
\* outcome and the async with releases the permit.
OpenPageFails(k) ==
    /\ k \in DOMAIN task
    /\ task[k].pc = "acquired"
    /\ task' = [task EXCEPT ![k].pc = "done", ![k].result = Caught(k, "new_page"),
                            ![k].fault = "new_page"]
    /\ semaphore' = Released
    /\ UNCHANGED << config, pool, waiters, orch, batch_i, batches, all_results,
                    pauses, raised, closes, now, pages, followed >>

\* lines 123-189, the inner try block: either every step succeeds and the
\* SearchResult of lines 184-189 is on its way out (search_time is taken at
\* line 180, before the page is closed), or step f raises.
TryBlock(k, f) ==
    IF f = "none"
    THEN SuccessResult(task[k].business_name, PAGE_CONTENT, now - task[k].start_time)
    ELSE [exception |-> ErrorMessage(f)]

RunPage(k) ==
    /\ k \in DOMAIN task
    /\ task[k].pc = "page"
    /\ \E f \in PageFaults \cup {"none"} :
         task' = [task EXCEPT ![k].pc = "closing", ![k].pending = TryBlock(k, f),
                              ![k].fault = f]
    /\ UNCHANGED << config, pool, sem, orch, batch_i, batches, all_results, pauses,
                    raised, closes, now, pages, followed >>

\* lines 191-203: finally closes the page.  An exception of close() replaces
\* whatever was on its way out.  An exception then reaches the except clause;
\* a return value is returned.  Leaving the async with releases the permit.
AfterFinally(k, closeRaises) ==
    LET out == IF closeRaises THEN [exception |-> "close"] ELSE task[k].pending
    IN IF IsException(out) THEN Caught(k, out.exception) ELSE out

\* Mutant of PagesAfterClose: the page is closed at the end of the try block
\* instead of in finally, so only when nothing raised.
PagesAfterCloseOnSuccess(k) ==
    IF IsException(task[k].pending) THEN pages ELSE pages \ {k}

\* line 192: after page.close() the task has no page, also when close()
\* raised (the driver raises there for a page that is already gone).
PagesAfterClose(k) == pages \ {k}

ClosePage(k) ==
    /\ k \in DOMAIN task
    /\ task[k].pc = "closing"
    /\ \E closeRaises \in BOOLEAN :
         task' = [task EXCEPT ![k].pc = "done", ![k].pending = NoValue,
                              ![k].result = AfterFinally(k, closeRaises),
                              ![k].fault = IF closeRaises THEN "close" ELSE @]
    /\ pages' = PagesAfterClose(k)
    /\ semaphore' = Released
    /\ UNCHANGED << config, pool, waiters, orch, batch_i, batches, all_results,
                    pauses, raised, closes, now, followed >>

\* A second passes while some task is in flight (the clock is followed for
\* MaxClock seconds).
Tick ==
    /\ \E k \in DOMAIN task : InFlight(k) /\ task[k].pc # "created"
    /\ now < MaxClock
    /\ now' = now + 1
    /\ UNCHANGED << config, pool, sem, orch, batch_i, batches, all_results, pauses,
                    raised, closes, task, pages, followed >>

Positions == 1..N

Next ==
    \/ StartOk
    \/ StartFails
    \/ NextBatch
    \/ LoopEnds
    \/ DirectCall
    \/ Join
    \/ Pause
    \/ Close
    \/ \E k \in Positions : BeginTask(k)
    \/ \E k \in Positions : AcquireWaiter(k)
    \/ \E k \in Positions : OpenPage(k)
    \/ \E k \in Positions : OpenPageFails(k)
    \/ \E k \in Positions : RunPage(k)
    \/ \E k \in Positions : ClosePage(k)
    \/ Tick

Spec == Init /\ [][Next]_vars

SpecWide == InitWide /\ [][Next]_vars

(***************************************************************************)
(* Properties of Spec.                                                     *)
(***************************************************************************)
IsSearchResult(r) == DOMAIN r = DOMAIN SearchResult("", "", TRUE, "", 0)

Done(k) == k \in DOMAIN task /\ task[k].pc = "done"

Returned == orch = "returned"

\* C1: when the run returns, all_results holds exactly one outcome per input
\* name, the k-th outcome carrying the k-th name, whatever tasks failed and in
\* whatever order they completed.
OneOutcomePerNameInOrder ==
    Returned =>
        /\ Len(all_results) = N
        /\ \A k \in 1..N :
             /\ IsSearchResult(all_results[k])
             /\ all_results[k].business_name = business_names[k]

\* A run of batch_search_businesses over two batches or more has returned with
\* a failed and a successful outcome, the failure before the success.
OneOutcomePerNameWitness ==
    /\ Returned
    /\ caller = "batch_search_businesses"
    /\ Len(batches) >= 2
    /\ \E j, k \in 1..N :
         /\ j < k
         /\ ~all_results[j].success
         /\ all_results[k].success

\* C2: two tasks that have a page open never use the same context (settled
\* under SpecWide: it takes three names to bring two tasks to one context).
NoSharedContext ==
    \A j, k \in pages : j # k => ContextOf(j) # ContextOf(k)

\* C3: the tasks between the semaphore's acquire and its release are never
\* more than max_concurrent, and the free permits account for the rest.
PermitHolders == { k \in DOMAIN task : HoldsPermit(k) }

LimiterBound ==
    /\ Cardinality(PermitHolders) <= max_concurrent
    /\ semaphore + Cardinality(PermitHolders) = max_concurrent

\* More tasks than permits: every permit is held and a task is queued.
LimiterBoundWitness ==
    /\ Cardinality(PermitHolders) = max_concurrent
    /\ waiters # << >>
    /\ Cardinality(CurrentBatch) > max_concurrent

\* C4: a task of a later batch has not begun (no start_time, no permit, no
\* page) while a task of an earlier batch has not produced its outcome.
BatchOf(k) == CHOOSE b \in 1..Len(batches) : k \in batches[b]

Begun(k) == k \in DOMAIN task /\ task[k].pc # "created"

RaisedMessage(f) ==
    IF f \in {"new_page", "close"} THEN f ELSE ErrorMessage(f)

FailureContained ==
    /\ raised \in {"none", "start", "ZeroDivisionError"}
    /\ \A k \in DOMAIN task :
         Done(k) =>
            /\ IsSearchResult(task[k].result)
            /\ task[k].result.business_name = business_names[k]
            /\ task[k].result.search_time \in 0..(now - task[k].start_time)
            /\ IF task[k].fault = "none"
               THEN /\ task[k].result.success
                    /\ task[k].result.html_content = PAGE_CONTENT
               ELSE /\ ~task[k].result.success
                    /\ task[k].result.html_content = ""
                    /\ task[k].result.error_message = RaisedMessage(task[k].fault)

\* In one batch a task failed after a second had passed and its sibling
\* succeeded.
FailureContainedWitness ==
    \E i, j \in DOMAIN task :
        /\ BatchOf(i) = BatchOf(j) /\ i < j
        /\ Done(i) /\ task[i].fault # "none" /\ task[i].result.search_time > 0
        /\ Done(j) /\ task[j].result.success

\* C6: a task that has ended has no page and no permit; once every task of
\* the batch has ended no page is open and all max_concurrent permits are free.
PageHolders == { k \in DOMAIN task : task[k].pc \in {"page", "closing"} }

ExpectedBatches == (N + batch_size - 1) \div batch_size

PausesBetweenBatches ==
    caller = "batch_search_businesses" =>
        /\ orch \in {"gather", "pause"} => pauses = Len(batches) - 1
        /\ (orch = "pause") => Len(batches) < ExpectedBatches
        /\ (orch = "entered" /\ batch_i < N) => pauses = Len(batches)
        /\ (orch = "entered" /\ batch_i >= N) => pauses = Max(0, Len(batches) - 1)
        /\ (orch \in {"exiting", "returned"}) =>
              /\ Len(batches) = ExpectedBatches
              /\ pauses = Max(0, ExpectedBatches - 1)

\* A run of two batches returned after one pause although every task of the
\* first batch failed.
PausesBetweenBatchesWitness ==
    /\ Returned
    /\ caller = "batch_search_businesses"
    /\ Len(batches) = 2
    /\ pauses = 1
    /\ \A k \in batches[1] : ~all_results[k].success

\* C14: when start() has raised, the caller has the exception, no task was
\* created and every browser and context made before the failure is closed.
NoPartialPoolLeftOpen ==
    (orch = "raised" /\ raised = "start") =>
        /\ task = << >>
        /\ \A b \in DOMAIN browser_pool : ~browser_pool[b].open
        /\ \A c \in DOMAIN context_pool : ~context_pool[c].open

\* Nothing of a Fetch Task is left: every task created has returned and its
\* outcome is in the list, no permit is held, no task is queued, no page is
\* open.
Quiescent ==
    /\ \A k \in DOMAIN task : Done(k)
    /\ Len(all_results) = Cardinality(DOMAIN task)
    /\ semaphore = max_concurrent
    /\ waiters = << >>
    /\ pages = {}

\* C24: after a start() that succeeded close() is called exactly once, when
\* the async with block is left by its end or by an exception; before that it
\* has not been called; when it begins and ever after nothing of a Fetch Task
\* is left.  After a start() that raised it is not called.
ClosedOnceAfterLastBatch ==
    /\ closes \in {0, 1}
    /\ orch \in {"new", "entered", "gather", "pause", "exiting"} => closes = 0
    /\ orch = "returned" => closes = 1
    /\ orch = "raised" => closes = (IF raised = "start" THEN 0 ELSE 1)
    /\ (orch = "exiting" \/ closes = 1) =>
          /\ Quiescent
          /\ \A b \in DOMAIN batches : \A k \in batches[b] : Done(k)
    /\ (closes = 1) =>
          /\ \A c \in DOMAIN context_pool : ~context_pool[c].open
          /\ \A b \in DOMAIN browser_pool : ~browser_pool[b].open

\* A run of batch_search_businesses over two batches, a task of the last one
\* failed: close() was called once and the pool is closed.
ClosedOnceAfterLastBatchWitness ==
    /\ Returned
    /\ caller = "batch_search_businesses"
    /\ closes = 1
    /\ Len(batches) = 2
    /\ \E k \in batches[2] : ~task[k].result.success
    /\ context_pool # << >>
    /\ \A c \in DOMAIN context_pool : ~context_pool[c].open

(***************************************************************************)
(* SpecLive: Spec on an event loop that runs every coroutine that is ready *)
(* (asyncio's ready queue is first in, first out), every awaited browser   *)
(* call returning or raising in the end (the timeouts of lines 125-126).   *)
(* The clock is not followed: no step of the program waits for it.         *)
(***************************************************************************)
Orchestrate ==
    \/ StartOk
    \/ StartFails
    \/ NextBatch
    \/ LoopEnds
    \/ DirectCall
    \/ Join
    \/ Pause
    \/ Close

TaskStep(k) ==
    \/ BeginTask(k)
    \/ AcquireWaiter(k)
    \/ OpenPage(k)
    \/ OpenPageFails(k)
    \/ RunPage(k)
    \/ ClosePage(k)

Fairness ==
    /\ WF_vars(Orchestrate)
    /\ \A k \in 1..MaxNames : WF_vars(TaskStep(k))

NextLive ==
    \/ StartOk
    \/ StartFails
    \/ NextBatch
    \/ LoopEnds
    \/ DirectCall
    \/ Join
    \/ Pause
    \/ Close
    \/ \E k \in Positions : BeginTask(k)
    \/ \E k \in Positions : AcquireWaiter(k)
    \/ \E k \in Positions : OpenPage(k)
    \/ \E k \in Positions : OpenPageFails(k)
    \/ \E k \in Positions : RunPage(k)
    \/ \E k \in Positions : ClosePage(k)

SpecLive == Init /\ [][NextLive]_vars /\ Fairness

Waiting(k) == k \in DOMAIN task /\ task[k].pc = "waiting"

Finished == orch \in {"returned", "raised"}

\* C17: a run of batch_search_businesses ends, and when it has returned every
\* batch has been made and joined and the list holds the outcome of every
\* name.
SyncReturnsComplete ==
    /\ (caller = "batch_search_businesses") ~> Finished
    /\ [](Returned /\ caller = "batch_search_businesses" =>
            /\ Len(batches) = ExpectedBatches
            /\ \A k \in 1..N : Done(k)
            /\ Len(all_results) = N
            /\ pages = {} /\ semaphore = max_concurrent)

\* A run over two batches returned with both outcomes.
SyncReturnsCompleteWitness ==
    /\ Returned
    /\ caller = "batch_search_businesses"
    /\ Len(batches) = 2
    /\ Len(all_results) = N
    /\ \E k \in 1..N : ~all_results[k].success

(***************************************************************************)
(* SpecBatches: batch_search_businesses with every gather taken as one     *)
(* step (a batch never has more tasks than permits, so no task waits).     *)
(***************************************************************************)
InitBatches ==
    /\ caller = "batch_search_businesses"
    /\ \E n \in 0..MaxBatchNames : business_names = NameList(n)
    /\ batch_size \in 1..MaxSlice
    /\ max_concurrent = batch_size
    /\ browser_pool_size = BROWSER_POOL_SIZE
    /\ InitScraper
    /\ NoneFollowed

\* line 256: the tasks of the batch run to their end, those in failed raising
\* in goto.
RunBatch ==
    /\ orch = "gather"
    /\ \A k \in CurrentBatch : task[k].pc = "created"
    /\ CurrentBatch # {}
    /\ \E failed \in SUBSET CurrentBatch :
         task' = [k \in DOMAIN task |->
                    IF k \notin CurrentBatch THEN task[k]
                    ELSE IF k \in failed
                         THEN [task[k] EXCEPT !.pc = "done", !.fault = "goto",
                                              !.result = Caught(k, ErrorMessage("goto"))]
                         ELSE [task[k] EXCEPT !.pc = "done",
                                              !.result = TryBlock(k, "none")]]
    /\ UNCHANGED << config, pool, sem, orch, batch_i, batches, all_results, pauses,
                    raised, closes, now, pages, followed >>

NextBatches ==
    \/ StartOk
    \/ StartFails
    \/ NextBatch
    \/ LoopEnds
    \/ RunBatch
    \/ Join
    \/ Pause
    \/ Close

SpecBatches == InitBatches /\ [][NextBatches]_vars

\* The names handed to search_multiple_businesses in batch b, in task order.
BatchNames(b) ==
    LET ks == Ordered(batches[b])
    IN [p \in 1..Len(ks) |-> task[ks[p]].business_name]

RECURSIVE ConcatBatches(_)
ConcatBatches(b) == IF b = 0 THEN << >> ELSE ConcatBatches(b - 1) \o BatchNames(b)

\* C8: the batches are the contiguous slices of batch_size names in input
\* order, only the last one possibly smaller; a finished run has made
\* ceil(N / batch_size) of them, their concatenation is the input list, and an
\* empty list gives no batch and no result.
ContiguousBatches ==
    /\ \A b \in 1..Len(batches) :
         /\ batches[b] = ((b - 1) * batch_size + 1)..Min(b * batch_size, N)
         /\ Cardinality(batches[b]) =
               IF b < ExpectedBatches THEN batch_size
               ELSE N - (ExpectedBatches - 1) * batch_size
         /\ Cardinality(batches[b]) \in 1..batch_size
    /\ Len(batches) <= ExpectedBatches
    /\ ConcatBatches(Len(batches)) = SubSeq(business_names, 1, Len(ConcatBatches(Len(batches))))
    /\ (orch \in {"exiting", "returned"}) =>
          /\ Len(batches) = ExpectedBatches
          /\ ConcatBatches(Len(batches)) = business_names
          /\ Len(all_results) = N
    /\ (Returned /\ N = 0) => (batches = << >> /\ all_results = << >>)

\* 7 names with batch_size 3: batches of 3, 3 and 1 names, 2 pauses.
ContiguousBatchesWitness ==
    /\ Returned
    /\ N = 7
    /\ batch_size = 3
    /\ [b \in 1..Len(batches) |-> Cardinality(batches[b])] = << 3, 3, 1 >>
    /\ pauses = 2

(***************************************************************************)
(* SpecDetector: _wait_for_results_smart (lines 205-239) against a DOM in  *)
(* which the results container appears at results_at and the "no results"  *)
(* text at no_results_at, the loading indicator comes and goes, and a      *)
(* query may raise.  Time is in tenths of a second and is the clock the    *)
(* function reads: it advances in asyncio.sleep(0.5), the queries of one   *)
(* poll see the DOM of the instant the poll starts.                        *)
(***************************************************************************)
MAX_WAIT == 80
GRACE == 30
POLL == 5

\* An appearance time no run reaches.
Never == 2 * MAX_WAIT

AppearTimes == 0..MaxAppear \cup {Never}

Queries == {"results", "no_results", "loading"}

\* Mutant of WithinBudget: the loop stops one poll interval before the budget.
WithinBudgetEarly(t) == t + POLL < MAX_WAIT

\* line 211: the loop test.
WithinBudget(t) == t < MAX_WAIT

\* Mutant of GraceElapsed: the grace period counts as elapsed at 3.0 s sharp.
GraceElapsedInclusive(t) == t >= GRACE

\* lines 230 and 237
GraceElapsed(t) == t > GRACE

\* Mutant of PollOutcome: no except clause, the exception of a query leaves
\* the function.
PollOutcomeRaisePropagates(t, results, no_results, loading, raises) ==
    IF raises = "results" THEN "raise"
    ELSE IF results THEN "results"
    ELSE IF raises = "no_results" THEN "raise"
    ELSE IF no_results THEN "no_results"
    ELSE IF raises = "loading" THEN "raise"
    ELSE IF ~loading /\ GraceElapsed(t) THEN "settled"
    ELSE "sleep"

\* Mutant of PollOutcome: the "no results" text is looked for first.
PollOutcomeNoResultsFirst(t, results, no_results, loading, raises) ==
    IF raises = "no_results" THEN (IF GraceElapsed(t) THEN "settled_on_error" ELSE "sleep")
    ELSE IF no_results THEN "no_results"
    ELSE IF raises = "results" THEN (IF GraceElapsed(t) THEN "settled_on_error" ELSE "sleep")
    ELSE IF results THEN "results"
    ELSE IF raises = "loading" THEN (IF GraceElapsed(t) THEN "settled_on_error" ELSE "sleep")
    ELSE IF ~loading /\ GraceElapsed(t) THEN "settled"
    ELSE "sleep"

\* lines 213-239, one pass of the loop body at elapsed time t: which return
\* statement is taken, or "sleep".  raises is the query that raises, if any.
PollOutcome(t, results, no_results, loading, raises) ==
    IF raises = "results" THEN (IF GraceElapsed(t) THEN "settled_on_error" ELSE "sleep")
    ELSE IF results THEN "results"
    ELSE IF raises = "no_results" THEN (IF GraceElapsed(t) THEN "settled_on_error" ELSE "sleep")
    ELSE IF no_results THEN "no_results"
    ELSE IF raises = "loading" THEN (IF GraceElapsed(t) THEN "settled_on_error" ELSE "sleep")
    ELSE IF ~loading /\ GraceElapsed(t) THEN "settled"
    ELSE "sleep"

\* The DOM at elapsed time t.
ResultsPresent(t) == t >= wait.results_at
NoResultsPresent(t) == t >= wait.no_results_at

InitDetector ==
    /\ caller = "batch_search_businesses"
    /\ business_names = << >>
    /\ batch_size = 1
    /\ max_concurrent = 1
    /\ browser_pool_size = BROWSER_POOL_SIZE
    /\ InitScraper
    /\ OnlyWait
    /\ \E r \in AppearTimes, n \in AppearTimes :
         wait = [pc |-> "polling", elapsed |-> 0, exit |-> "none",
                 results_at |-> r, no_results_at |-> n,
                 loading |-> TRUE, raises |-> "none", raised |-> FALSE]

\* One pass of the while loop: the queries, then a return or the sleep.
Poll ==
    /\ wait.pc = "polling"
    /\ WithinBudget(wait.elapsed)
    /\ \E loading \in BOOLEAN, raises \in Queries \cup {"none"} :
         LET out == PollOutcome(wait.elapsed, ResultsPresent(wait.elapsed),
                                NoResultsPresent(wait.elapsed), loading, raises)
             seen == [wait EXCEPT !.loading = loading, !.raises = raises,
                                  !.raised = @ \/ raises # "none"]
         IN wait' = IF out = "sleep"
                    THEN [seen EXCEPT !.elapsed = @ + POLL]
                    ELSE [seen EXCEPT !.pc = "returned", !.exit = out]
    /\ UNCHANGED << config, pool, sem, orch, batch_i, batches, all_results, pauses,
                    raised, closes, now, task, pages, fetch, shutdown, http >>

\* line 211: the budget is used up, the function falls off the loop.
BudgetExit ==
    /\ wait.pc = "polling"
    /\ ~WithinBudget(wait.elapsed)
    /\ wait' = [wait EXCEPT !.pc = "returned", !.exit = "budget"]
    /\ UNCHANGED << config, pool, sem, orch, batch_i, batches, all_results, pauses,
                    raised, closes, now, task, pages, fetch, shutdown, http >>

NextDetector == Poll \/ BudgetExit

SpecDetector == InitDetector /\ [][NextDetector]_vars

WaitReturned == wait.pc = "returned"

NoMarkerEver == wait.results_at = Never /\ wait.no_results_at = Never

\* C9 as stated: with no results container and no "no results" text ever, the
\* detector returns at the budget, not earlier and at most one poll later.
NoMarkerRunsToBudget ==
    (WaitReturned /\ NoMarkerEver) =>
        /\ wait.elapsed >= MAX_WAIT
        /\ wait.elapsed <= MAX_WAIT + POLL

\* C9 amended: with no marker ever, the detector returns at the budget (not
\* earlier, at most one poll interval later) unless a poll after the grace
\* period finds no loading indicator or has a query raise; then it returns at
\* that poll, before the budget.
NoMarkerBudgetOrSettled ==
    (WaitReturned /\ NoMarkerEver) =>
        IF wait.elapsed > GRACE /\ wait.elapsed < MAX_WAIT
        THEN /\ wait.exit \in {"settled", "settled_on_error"}
             /\ (wait.exit = "settled") = (wait.raises = "none" /\ ~wait.loading)
             /\ (wait.exit = "settled_on_error") = (wait.raises # "none")
        ELSE /\ wait.exit = "budget"
             /\ wait.loading /\ wait.raises = "none"
             /\ wait.elapsed >= MAX_WAIT
             /\ wait.elapsed <= MAX_WAIT + POLL

\* No marker ever, no query ever raised, the loading indicator was there at
\* the last poll: the detector left at the budget.
NoMarkerBudgetWitness ==
    /\ WaitReturned
    /\ NoMarkerEver
    /\ ~wait.raised
    /\ wait.exit = "budget"
    /\ wait.elapsed = MAX_WAIT

NoMarkerAt(t) == ~ResultsPresent(t) /\ ~NoResultsPresent(t)

StoppedBeforeBudget == WaitReturned /\ wait.elapsed < MAX_WAIT

\* C11 as stated: with no marker in the DOM, the detector stops before the
\* budget only at a poll where the loading indicator is absent and the grace
\* period has elapsed; where the indicator is present or the grace period has
\* not elapsed it sleeps.
StopsOnlyWhenIdleAfterGrace ==
    (StoppedBeforeBudget /\ NoMarkerAt(wait.elapsed)) =>
        /\ ~wait.loading
        /\ wait.elapsed > GRACE

\* C11 amended: with no marker in the DOM, the detector stops before the
\* budget only at a poll after the grace period, and if no query raised at
\* that poll only with the loading indicator absent; a poll that slept did so
\* for one poll interval, and if no query raised in it the loading indicator
\* was present or the grace period had not elapsed.
StopsOnlyAfterGrace ==
    /\ (StoppedBeforeBudget /\ NoMarkerAt(wait.elapsed)) =>
           /\ wait.elapsed > GRACE
           /\ wait.raises = "none" => ~wait.loading
    /\ (wait.pc = "polling" /\ wait.elapsed > 0) =>
           /\ wait.elapsed % POLL = 0
           /\ (wait.raises = "none" /\ NoMarkerAt(wait.elapsed - POLL)) =>
                  (wait.loading \/ wait.elapsed - POLL <= GRACE)

\* No marker ever and no query ever raised: the poll at 3.5 s found the loading
\* indicator and slept, the poll at 4.0 s found none and returned.
StopsOnlyAfterGraceWitness ==
    /\ WaitReturned
    /\ NoMarkerEver
    /\ ~wait.raised
    /\ wait.exit = "settled"
    /\ wait.elapsed = GRACE + 2 * POLL

(***************************************************************************)
(* SpecDetectorLive: the detector on an event loop that resumes it after   *)
(* every await (a query returns or raises, asyncio.sleep(0.5) ends).       *)
(***************************************************************************)
FairnessDetector == WF_vars(NextDetector)

SpecDetectorLive == InitDetector /\ [][NextDetector]_vars /\ FairnessDetector

\* The way the function was left: one of its return statements or the end of
\* the loop.
DetectorExits == {"results", "no_results", "settled", "settled_on_error", "budget"}

\* The query named raises is reached by the poll made at elapsed time t: the
\* queries before it found nothing.
QueryRaisesAt(t, raises) ==
    \/ raises = "results"
    \/ raises = "no_results" /\ ~ResultsPresent(t)
    \/ raises = "loading" /\ NoMarkerAt(t)

\* A poll of which a query raised: the function returns at that poll once the
\* grace period has elapsed, otherwise it sleeps one poll interval and polls
\* again.
RaisingPollIsPending ==
    (wait.pc = "polling" /\ wait' # wait /\ QueryRaisesAt(wait.elapsed, wait'.raises)) =>
        IF GraceElapsed(wait.elapsed)
        THEN /\ wait'.pc = "returned"
             /\ wait'.exit = "settled_on_error"
             /\ wait'.elapsed = wait.elapsed
        ELSE /\ wait'.pc = "polling"
             /\ wait'.elapsed = wait.elapsed + POLL

\* C25: the detector terminates for every sequence of DOM states, also when
\* queries raise at some or all polls; a raising poll returns only after the
\* grace period and otherwise sleeps one poll interval; the detector leaves by
\* a return (never by the exception of a query) no later than the budget plus
\* one poll interval.
DetectorAlwaysReturns ==
    /\ <>WaitReturned
    /\ [](/\ wait.elapsed <= MAX_WAIT + POLL
          /\ WaitReturned => wait.exit \in DetectorExits
          /\ wait.pc \in {"polling", "returned"}
          /\ (wait.exit = "settled_on_error") =>
                (WaitReturned /\ wait.raised /\ GraceElapsed(wait.elapsed)))
    /\ [][RaisingPollIsPending]_vars

\* No marker ever; the first query raised at the poll at 3.5 s, the first one
\* after the grace period, and the detector returned there.
DetectorAlwaysReturnsWitness ==
    /\ WaitReturned
    /\ NoMarkerEver
    /\ wait.raises = "results"
    /\ wait.exit = "settled_on_error"
    /\ wait.elapsed = GRACE + POLL

(***************************************************************************)
(* SpecFetch: one run of search_business_optimized (lines 111-203) on a    *)
(* started scraper, every awaited call a step that returns or raises.      *)
(* fetch is a record                                                       *)
(*   pc             the call to make next, or "done"                       *)
(*   business_name, context_id   the arguments                             *)
(*   attempts       what happened at each submit selector tried so far     *)
(*   tried          the submit selectors tried so far, in order            *)
(*   search_clicked search_clicked                                         *)
(*   gotos, detector, closed   how often page.goto, _wait_for_results_smart *)
(*                  and page.close were called                             *)
(*   page           a page is open                                         *)
(*   pending        as in a task of Spec                                   *)
(*   result         what the coroutine returned                            *)
(*   fault          the call before finally that raised, or "none"         *)
(*   close_raised   page.close() raised                                    *)
(***************************************************************************)
\* lines 147-155
search_button_selectors ==
    << "button[type='submit']", "input[type='submit']",
       "button:has-text('Search')", "button:has-text('SEARCH')",
       "input[value='Search']", "input[value='SEARCH']", "#nodeW20" >>

\* lines 159-167, one selector: count() is 0, count() or click() raises (the
\* except clause continues), or the click succeeds.
SelectorOutcomes == {"absent", "raises", "clicked"}

InitFetch ==
    /\ caller = "search_multiple_businesses"
    /\ business_names = NameList(1)
    /\ batch_size = 0
    /\ max_concurrent = 1
    /\ browser_pool_size = 1
    /\ browser_pool = BrowserPoolAfter(1, 1, LaunchOps(1, 1))
    /\ context_pool = ContextPoolAfter(1, 1, LaunchOps(1, 1))
    /\ semaphore = max_concurrent
    /\ waiters = << >>
    /\ orch = "gather"
    /\ batch_i = 0
    /\ batches = << >>
    /\ all_results = << >>
    /\ pauses = 0
    /\ raised = "none"
    /\ closes = 0
    /\ now = 0
    /\ task = << >>
    /\ pages = {}
    /\ wait = IdleWait
    /\ shutdown = IdleWait
    /\ http = IdleWait
    /\ \E cid \in 0..1 :
         fetch = [pc |-> "acquire", business_name |-> business_names[1],
                  context_id |-> cid, attempts |-> << >>, tried |-> << >>,
                  search_clicked |-> FALSE, gotos |-> 0, detector |-> 0,
                  closed |-> 0, page |-> FALSE, pending |-> NoValue,
                  result |-> NoValue, fault |-> "none", close_raised |-> FALSE]

FetchUnchanged ==
    UNCHANGED << config, pool, waiters, orch, batch_i, batches, all_results,
                 pauses, raised, closes, now, task, pages, wait, shutdown, http >>

\* Call f of the inner try block raises: the exception is on its way out
\* through finally.
FetchRaises(f) ==
    [fetch EXCEPT !.pending = [exception |-> ErrorMessage(f)], !.fault = f,
                  !.pc = "finally"]

\* lines 194-203
FetchCaught(msg) == FailureResult(fetch.business_name, msg, now)

\* line 117: async with self.semaphore
FetchAcquire ==
    /\ fetch.pc = "acquire"
    /\ semaphore > 0
    /\ semaphore' = semaphore - 1
    /\ fetch' = [fetch EXCEPT !.pc = "new_page"]
    /\ FetchUnchanged

\* lines 120-121; an exception goes to the except clause, the permit is
\* released
FetchNewPage ==
    /\ fetch.pc = "new_page"
    /\ \E raises \in BOOLEAN :
         IF raises
         THEN /\ fetch' = [fetch EXCEPT !.pc = "done", !.fault = "new_page",
                                        !.result = FetchCaught("new_page")]
              /\ semaphore' = Released
         ELSE /\ fetch' = [fetch EXCEPT !.pc = "goto", !.page = TRUE]
              /\ UNCHANGED semaphore
    /\ FetchUnchanged

\* line 133
FetchGoto ==
    /\ fetch.pc = "goto"
    /\ \E raises \in BOOLEAN :
         fetch' = IF raises
                  THEN [FetchRaises("goto") EXCEPT !.gotos = @ + 1]
                  ELSE [fetch EXCEPT !.pc = "cookie", !.gotos = @ + 1]
    /\ UNCHANGED semaphore
    /\ FetchUnchanged

\* lines 136-140: whatever the click does, the task goes on
FetchCookie ==
    /\ fetch.pc = "cookie"
    /\ fetch' = [fetch EXCEPT !.pc = "fill"]
    /\ UNCHANGED semaphore
    /\ FetchUnchanged

\* lines 143-144
FetchFill ==
    /\ fetch.pc = "fill"
    /\ \E raises \in BOOLEAN :
         fetch' = IF raises THEN FetchRaises("fill")
                  ELSE [fetch EXCEPT !.pc = "selectors"]
    /\ UNCHANGED semaphore
    /\ FetchUnchanged

\* Mutant of FetchSelector: no break after a click that succeeded, the loop
\* runs over the whole list.
FetchSelectorNoBreak ==
    /\ fetch.pc = "selectors"
    /\ \E outcome \in SelectorOutcomes :
         LET tried == [fetch EXCEPT
                         !.attempts = Append(@, outcome),
                         !.tried = Append(@, search_button_selectors[Len(@) + 1]),
                         !.search_clicked = @ \/ outcome = "clicked"]
         IN fetch' =
              IF Len(tried.attempts) < Len(search_button_selectors)
              THEN tried
              ELSE IF tried.search_clicked
                   THEN [tried EXCEPT !.pc = "load_state"]
                   ELSE [tried EXCEPT !.pending = [exception |-> ErrorMessage("submit")],
                                      !.fault = "submit", !.pc = "finally"]
    /\ UNCHANGED semaphore
    /\ FetchUnchanged

\* lines 158-170: the next selector of the list is tried.  A click that
\* succeeds ends the loop; after the last selector without a click line 170
\* raises.
FetchSelector ==
    /\ fetch.pc = "selectors"
    /\ \E outcome \in SelectorOutcomes :
         LET tried == [fetch EXCEPT
                         !.attempts = Append(@, outcome),
                         !.tried = Append(@, search_button_selectors[Len(@) + 1])]
         IN fetch' =
              IF outcome = "clicked"
              THEN [tried EXCEPT !.search_clicked = TRUE, !.pc = "load_state"]
              ELSE IF Len(tried.attempts) < Len(search_button_selectors)
                   THEN tried
                   ELSE [tried EXCEPT !.pending = [exception |-> ErrorMessage("submit")],
                                      !.fault = "submit", !.pc = "finally"]
    /\ UNCHANGED semaphore
    /\ FetchUnchanged

\* line 173
FetchLoadState ==
    /\ fetch.pc = "load_state"
    /\ \E raises \in BOOLEAN :
         fetch' = IF raises THEN FetchRaises("load_state")
                  ELSE [fetch EXCEPT !.pc = "_wait_for_results_smart"]
    /\ UNCHANGED semaphore
    /\ FetchUnchanged

\* line 176: the detector returns (it swallows what its queries raise)
FetchDetector ==
    /\ fetch.pc = "_wait_for_results_smart"
    /\ fetch' = [fetch EXCEPT !.pc = "content", !.detector = @ + 1]
    /\ UNCHANGED semaphore
    /\ FetchUnchanged

\* lines 179-189
FetchContent ==
    /\ fetch.pc = "content"
    /\ \E raises \in BOOLEAN :
         fetch' = IF raises THEN FetchRaises("content")
                  ELSE [fetch EXCEPT !.pc = "finally",
                           !.pending = SuccessResult(fetch.business_name,
                                                     PAGE_CONTENT, now)]
    /\ UNCHANGED semaphore
    /\ FetchUnchanged

\* Mutant of FetchFinally: an exception of close() is swallowed, what was on
\* its way out stays.
FetchFinallyCloseSwallowed ==
    /\ fetch.pc = "finally"
    /\ \E closeRaises \in BOOLEAN :
         fetch' = [fetch EXCEPT
                     !.pc = "done", !.page = FALSE, !.closed = @ + 1,
                     !.close_raised = closeRaises, !.pending = NoValue,
                     !.result = IF IsException(fetch.pending)
                                THEN FetchCaught(fetch.pending.exception)
                                ELSE fetch.pending]
    /\ semaphore' = Released
    /\ FetchUnchanged

\* lines 191-203: finally closes the page; an exception of close() replaces
\* what was on its way out; an exception reaches the except clause; the async
\* with releases the permit.
FetchFinally ==
    /\ fetch.pc = "finally"
    /\ \E closeRaises \in BOOLEAN :
         LET out == IF closeRaises THEN [exception |-> "close"] ELSE fetch.pending
         IN fetch' = [fetch EXCEPT
                        !.pc = "done", !.page = FALSE, !.closed = @ + 1,
                        !.close_raised = closeRaises, !.pending = NoValue,
                        !.result = IF IsException(out)
                                   THEN FetchCaught(out.exception) ELSE out]
    /\ semaphore' = Released
    /\ FetchUnchanged

NextFetch ==
    \/ FetchAcquire
    \/ FetchNewPage
    \/ FetchGoto
    \/ FetchCookie
    \/ FetchFill
    \/ FetchSelector
    \/ FetchLoadState
    \/ FetchDetector
    \/ FetchContent
    \/ FetchFinally

SpecFetch == InitFetch /\ [][NextFetch]_vars

FetchDone == fetch.pc = "done"

\* The loop of lines 158-167 ran over the whole list and no click succeeded.
SelectorsExhausted ==
    /\ Len(fetch.attempts) = Len(search_button_selectors)
    /\ \A i \in DOMAIN fetch.attempts : fetch.attempts[i] # "clicked"

\* C12 as stated: a task whose submit selectors are exhausted never invokes
\* the Completion Detector and ends with success false, html_content "" and
\* the message of line 170.
SubmitFailureOutcome ==
    SelectorsExhausted =>
        /\ fetch.detector = 0
        /\ fetch.pc \in {"finally", "done"}
        /\ FetchDone =>
              /\ ~fetch.result.success
              /\ fetch.result.html_content = ""
              /\ fetch.result.error_message = SUBMIT_ERROR

\* C12 amended: such a task never invokes the Completion Detector and ends
\* with success false and html_content ""; its error_message is the message
\* of line 170 unless page.close() raises in finally, whose error then
\* replaces it.
SubmitFailureOutcomeUnlessCloseRaises ==
    SelectorsExhausted =>
        /\ fetch.detector = 0
        /\ fetch.pc \in {"finally", "done"}
        /\ FetchDone =>
              /\ ~fetch.result.success
              /\ fetch.result.html_content = ""
              /\ fetch.result.error_message =
                    IF fetch.close_raised THEN "close" ELSE SUBMIT_ERROR

\* A task returned the message of line 170 after selectors were absent and
\* clicks raised.
SubmitFailureOutcomeWitness ==
    /\ FetchDone
    /\ SelectorsExhausted
    /\ fetch.result.error_message = SUBMIT_ERROR
    /\ \E i, j \in DOMAIN fetch.attempts :
         fetch.attempts[i] = "absent" /\ fetch.attempts[j] = "raises"

\* C13: a task whose navigation failed has attempted the navigation again
\* before its failed outcome was recorded.
NavigationRetried ==
    (FetchDone /\ fetch.fault = "goto") => fetch.gotos >= 2

(***************************************************************************)
(* SpecClose: one run of close() (lines 87-102) on a started scraper, every *)
(* awaited close a step that returns or raises.  shutdown is a record      *)
(*   pc      "contexts" | "browsers" | "stop" | "returned" | "raised"      *)
(*   i       the index of the pool element the running loop is at          *)
(*   log     the close calls made so far: [kind, index, ok]                *)
(***************************************************************************)
InitClose ==
    /\ caller = "search_multiple_businesses"
    /\ business_names = << >>
    /\ batch_size = 0
    /\ max_concurrent \in 1..MaxBatchWide
    /\ browser_pool_size \in 0..MaxBrowsersWide
    /\ browser_pool = BrowserPoolAfter(max_concurrent, browser_pool_size,
                                       LaunchOps(max_concurrent, browser_pool_size))
    /\ context_pool = ContextPoolAfter(max_concurrent, browser_pool_size,
                                       LaunchOps(max_concurrent, browser_pool_size))
    /\ semaphore = max_concurrent
    /\ waiters = << >>
    /\ orch = "exiting"
    /\ batch_i = 0
    /\ batches = << >>
    /\ all_results = << >>
    /\ pauses = 0
    /\ raised = "none"
    /\ closes = 0
    /\ now = 0
    /\ task = << >>
    /\ pages = {}
    /\ wait = IdleWait
    /\ fetch = IdleWait
    /\ http = IdleWait
    /\ shutdown = [pc |-> "contexts", i |-> 1, log |-> << >>]

CloseUnchanged ==
    UNCHANGED << config, sem, orch, batch_i, batches, all_results, pauses,
                 raised, closes, now, task, pages, wait, fetch, http >>

\* Mutant of AfterCloseRaised: no try/except around the close, the exception
\* leaves close().
AfterCloseRaisedPropagates(sd) == [sd EXCEPT !.pc = "raised"]

\* lines 91-92 and 97-98: the exception is printed and the loop goes on.
AfterCloseRaised(sd) == sd

\* lines 88-92: the for loop over context_pool
CloseContext ==
    /\ shutdown.pc = "contexts"
    /\ IF shutdown.i <= Len(context_pool)
       THEN \E ok \in BOOLEAN :
              LET called == [shutdown EXCEPT
                               !.i = @ + 1,
                               !.log = Append(@, [kind |-> "context",
                                                  index |-> shutdown.i, ok |-> ok])]
              IN /\ shutdown' = IF ok THEN called ELSE AfterCloseRaised(called)
                 /\ context_pool' = [context_pool EXCEPT ![shutdown.i].open = ~ok]
       ELSE /\ shutdown' = [shutdown EXCEPT !.pc = "browsers", !.i = 1]
            /\ UNCHANGED context_pool
    /\ UNCHANGED browser_pool
    /\ CloseUnchanged

\* lines 94-98: the for loop over browser_pool
CloseBrowser ==
    /\ shutdown.pc = "browsers"
    /\ IF shutdown.i <= Len(browser_pool)
       THEN \E ok \in BOOLEAN :
              LET called == [shutdown EXCEPT
                               !.i = @ + 1,
                               !.log = Append(@, [kind |-> "browser",
                                                  index |-> shutdown.i, ok |-> ok])]
              IN /\ shutdown' = IF ok THEN called ELSE AfterCloseRaised(called)
                 /\ browser_pool' = [browser_pool EXCEPT ![shutdown.i].open = ~ok]
       ELSE /\ shutdown' = [shutdown EXCEPT !.pc = "stop", !.i = 1]
            /\ UNCHANGED browser_pool
    /\ UNCHANGED context_pool
    /\ CloseUnchanged

\* lines 100-101: playwright.stop() is not guarded
StopPlaywright ==
    /\ shutdown.pc = "stop"
    /\ \E ok \in BOOLEAN :
         shutdown' = [shutdown EXCEPT
                        !.pc = IF ok THEN "returned" ELSE "raised",
                        !.log = Append(@, [kind |-> "playwright", index |-> 1,
                                           ok |-> ok])]
    /\ UNCHANGED pool
    /\ CloseUnchanged

NextClose == CloseContext \/ CloseBrowser \/ StopPlaywright

SpecClose == InitClose /\ [][NextClose]_vars

\* The close calls of a complete close(): every context in pool order, then
\* every browser in pool order.
ExpectedCloses ==
    [p \in 1..(Len(context_pool) + Len(browser_pool)) |->
        IF p <= Len(context_pool)
        THEN [kind |-> "context", index |-> p]
        ELSE [kind |-> "browser", index |-> p - Len(context_pool)]]

\* The context and browser closes made so far.
ResourceCloses ==
    { p \in DOMAIN shutdown.log : shutdown.log[p].kind # "playwright" }

\* C15: the closes made are, in order, those of every context and then of
\* every browser, each attempted once whatever failed before it; when the
\* loops are over every one has been attempted; close() raises only if
\* playwright.stop() does.
BestEffortClose ==
    /\ ResourceCloses = 1..Cardinality(ResourceCloses)
    /\ Cardinality(ResourceCloses) <= Len(ExpectedCloses)
    /\ \A p \in ResourceCloses :
         /\ shutdown.log[p].kind = ExpectedCloses[p].kind
         /\ shutdown.log[p].index = ExpectedCloses[p].index
    /\ \A p, q \in ResourceCloses :
         (shutdown.log[p].kind = "context" /\ shutdown.log[q].kind = "browser")
            => p < q
    /\ shutdown.pc \in {"stop", "returned", "raised"} =>
         Cardinality(ResourceCloses) = Len(ExpectedCloses)
    /\ shutdown.pc = "raised" =>
         LET last == shutdown.log[Len(shutdown.log)]
         IN last.kind = "playwright" /\ ~last.ok

\* close() returned although the first context and the first browser failed
\* to close; the contexts and browsers after them were closed.
BestEffortCloseWitness ==
    /\ shutdown.pc = "returned"
    /\ Len(context_pool) >= 2 /\ Len(browser_pool) >= 2
    /\ \E p, q \in ResourceCloses :
         /\ shutdown.log[p] = [kind |-> "context", index |-> 1, ok |-> FALSE]
         /\ shutdown.log[q] = [kind |-> "browser", index |-> 1, ok |-> FALSE]
    /\ ~context_pool[2].open /\ ~browser_pool[2].open

(***************************************************************************)
(* SpecPaginator: the page loop of scrape_federal_corporations.main (lines *)
(* 92-131) against a site whose page p parses to site[p + 1] records, and  *)
(* to none past the end of site.  Every GET returns a good response,       *)
(* returns an error status (raise_for_status raises HTTPError) or raises a *)
(* transport error.  http is a record                                      *)
(*   pc         "get" | "check" | "stopped"                                *)
(*   site       the number of records on each page of the site             *)
(*   page_number, attempt   the loop variables                             *)
(*   response   "None" | "ok" | "error": what response is bound to         *)
(*   all_active_corporations   the records accumulated, as <<page, row>>   *)
(*   requested  the pages a GET was made for, in order                     *)
(*   gets       the GETs made for the current page                         *)
(*   waits      the backoff sleeps made for the current page, in seconds   *)
(*   parsed     the pages whose response was handed to parse_html          *)
(*   stop       why the loop was left: "none" | "retries" | "empty"        *)
(***************************************************************************)
max_retries == 5
BACKOFF_BASE == 2

GetOutcomes == {"ok", "http_error", "transport_error"}

\* Mutant of wait_time: the backoff starts at one second.
wait_time_from_one(attempt) == BACKOFF_BASE ^ attempt

\* line 115
wait_time(attempt) == BACKOFF_BASE ^ (attempt + 1)

\* Mutant of RetriesFailed: only a missing response stops the loop.
RetriesFailedOnlyNone(response) == response = "None"

\* line 119: response is None or not response.ok
RetriesFailed(response) == response = "None" \/ response # "ok"

\* Mutant of parse_html: the first row of a page is left out.
parse_html_without_first(site, p) ==
    IF p + 1 \in DOMAIN site THEN [i \in 1..(site[p + 1] - 1) |-> << p, i + 1 >>]
    ELSE << >>

\* parse_html (lines 20-63) of the good response for page p of the site
parse_html(site, p) ==
    IF p + 1 \in DOMAIN site THEN [i \in 1..site[p + 1] |-> << p, i >>]
    ELSE << >>

InitPaginator ==
    /\ caller = "batch_search_businesses"
    /\ business_names = << >>
    /\ batch_size = 1
    /\ max_concurrent = 1
    /\ browser_pool_size = BROWSER_POOL_SIZE
    /\ InitScraper
    /\ wait = IdleWait
    /\ fetch = IdleWait
    /\ shutdown = IdleWait
    /\ \E n \in 0..MaxPages : \E site \in [1..n -> 0..MaxRecords] :
         http = [pc |-> "get", site |-> site, page_number |-> 0, attempt |-> 0,
                 response |-> "None", all_active_corporations |-> << >>,
                 requested |-> << >>, gets |-> 0, waits |-> << >>,
                 parsed |-> << >>,
                 stop |-> "none"]

\* lines 102-117: one pass of the retry loop, up to the next GET or the end
\* of the loop
HttpGet ==
    /\ http.pc = "get"
    /\ \E outcome \in GetOutcomes :
         LET got == [http EXCEPT
                       !.requested = IF http.gets = 0
                                     THEN Append(@, http.page_number) ELSE @,
                       !.gets = @ + 1,
                       !.response = IF outcome = "ok" THEN "ok"
                                    ELSE IF outcome = "http_error" THEN "error"
                                    ELSE @]
         IN http' =
              IF outcome = "ok" THEN [got EXCEPT !.pc = "check"]
              ELSE IF http.attempt + 1 = max_retries THEN [got EXCEPT !.pc = "check"]
              ELSE [got EXCEPT !.waits = Append(@, wait_time(http.attempt)),
                               !.attempt = @ + 1]
    /\ UNCHANGED << program, wait, fetch, shutdown >>

\* lines 119-131 and 98-101: the loop is left, or the page is parsed and, if
\* it has records, they are appended and the next page is set up
HttpCheck ==
    /\ http.pc = "check"
    /\ http' =
         IF RetriesFailed(http.response)
         THEN [http EXCEPT !.pc = "stopped", !.stop = "retries"]
         ELSE LET corporations_on_page == parse_html(http.site, http.page_number)
                  read == [http EXCEPT !.parsed = Append(@, http.page_number)]
              IN IF corporations_on_page = << >>
                 THEN [read EXCEPT !.pc = "stopped", !.stop = "empty"]
                 ELSE [read EXCEPT
                         !.all_active_corporations = @ \o corporations_on_page,
                         !.page_number = @ + 1,
                         !.pc = "get", !.response = "None", !.attempt = 0,
                         !.gets = 0, !.waits = << >>]
    /\ UNCHANGED << program, wait, fetch, shutdown >>

NextPaginator == HttpGet \/ HttpCheck

SpecPaginator == InitPaginator /\ [][NextPaginator]_vars

\* The rows of the pages before page p of the site, in page order.
RECURSIVE RowsBefore(_, _)
RowsBefore(site, p) ==
    IF p = 0 THEN << >>
    ELSE RowsBefore(site, p - 1) \o [i \in 1..site[p] |-> << p - 1, i >>]

\* The first page of the site without a row.
FirstEmptyPage(site) ==
    CHOOSE p \in 0..Len(site) :
        /\ p = Len(site) \/ site[p + 1] = 0
        /\ \A q \in 1..p : site[q] > 0

HttpStopped == http.pc = "stopped"

\* C18: the pages requested are 0, 1, 2, ... in this order, the records
\* accumulated are the rows of the pages before the current one in page
\* order, and a run that stopped on an empty parse stopped at the first page
\* without a row, having requested no page after it.
PagesInOrderUntilEmpty ==
    /\ \A i \in DOMAIN http.requested : http.requested[i] = i - 1
    /\ Len(http.requested) \in {http.page_number, http.page_number + 1}
    /\ http.page_number <= FirstEmptyPage(http.site)
    /\ http.all_active_corporations = RowsBefore(http.site, http.page_number)
    /\ (HttpStopped /\ http.stop = "empty") =>
          /\ http.page_number = FirstEmptyPage(http.site)
          /\ Len(http.requested) = http.page_number + 1
          /\ http.parsed = [i \in 1..(http.page_number + 1) |-> i - 1]

\* Pages 0 to 3 had rows and page 4 had none: the run stopped there with the
\* rows of pages 0 to 3.
PagesInOrderUntilEmptyWitness ==
    /\ HttpStopped
    /\ http.stop = "empty"
    /\ http.page_number = 4
    /\ http.requested = << 0, 1, 2, 3, 4 >>
    /\ Len(http.all_active_corporations) > 4

\* C19: a page gets at most 5 GETs; the k-th failed one, k = 1..4, is followed
\* by a sleep of 2^k seconds, the 5th by none; a successful GET ends the retry
\* loop at once.
BackoffSchedule ==
    /\ http.gets <= 5
    /\ Len(http.waits) <= 4
    /\ \A k \in DOMAIN http.waits : http.waits[k] = 2 ^ k
    /\ http.pc = "get" => (Len(http.waits) = http.gets /\ http.response # "ok")
    /\ http.pc = "check" =>
          /\ http.gets = Len(http.waits) + 1
          /\ http.response # "ok" => http.gets = 5

\* Four GETs failed, with sleeps of 2, 4, 8 and 16 seconds; the fifth
\* succeeded.
BackoffScheduleWitness ==
    /\ http.pc = "check"
    /\ http.gets = 5
    /\ http.waits = << 2, 4, 8, 16 >>
    /\ http.response = "ok"

\* C20: when the 5 GETs of a page failed the loop is left: the page is not
\* parsed, no later page is requested and the records are those of the
\* earlier pages.
AllRetriesFailedStops ==
    /\ (http.pc \in {"check", "stopped"} /\ http.response # "ok") =>
          /\ http.gets = 5
          /\ \A i \in DOMAIN http.parsed : http.parsed[i] # http.page_number
          /\ HttpStopped => http.stop = "retries"
    /\ (HttpStopped /\ http.stop = "retries") =>
          /\ http.response # "ok"
          /\ http.requested = [i \in 1..(http.page_number + 1) |-> i - 1]
          /\ http.parsed = [i \in 1..http.page_number |-> i - 1]
          /\ http.all_active_corporations = RowsBefore(http.site, http.page_number)

\* Pages 0 and 1 were read; the 5 GETs of page 2 failed, the last with an
\* error status, and the run stopped with the rows of pages 0 and 1.
AllRetriesFailedStopsWitness ==
    /\ HttpStopped
    /\ http.stop = "retries"
    /\ http.page_number = 2
    /\ http.response = "error"
    /\ http.all_active_corporations # << >>
    /\ Len(http.site) > 2 /\ http.site[3] > 0

\* The positions of the selector list at which a click succeeded.
Clicks == { i \in DOMAIN fetch.attempts : fetch.attempts[i] = "clicked" }

\* C21: the selectors tried are a prefix of the list, in list order; every one
\* tried before the last was absent or raised; a click that succeeded is the
\* last attempt, so at most one click succeeds; search_clicked tells whether
\* one did, and only then the task goes on to the load state.
SelectorsInListOrder ==
    /\ Len(fetch.tried) = Len(fetch.attempts)
    /\ Len(fetch.tried) <= Len(search_button_selectors)
    /\ fetch.tried = SubSeq(search_button_selectors, 1, Len(fetch.tried))
    /\ \A i \in Clicks : i = Len(fetch.attempts)
    /\ Cardinality(Clicks) <= 1
    /\ fetch.search_clicked = (Clicks # {})
    /\ fetch.pc = "selectors" => Clicks = {}
    /\ fetch.pc \in {"load_state", "_wait_for_results_smart", "content"} =>
          Clicks # {}
    /\ (Clicks = {} /\ fetch.pc \in {"finally", "done"} /\ fetch.fault = "submit")
          => Len(fetch.attempts) = Len(search_button_selectors)

\* The first selector was absent, the click on the second raised, the click
\* on the third succeeded: four selectors were never tried and the task went
\* on to its success.
SelectorsInListOrderWitness ==
    /\ FetchDone
    /\ fetch.attempts = << "absent", "raises", "clicked" >>
    /\ fetch.tried = << "button[type='submit']", "input[type='submit']",
                        "button:has-text('Search')" >>
    /\ fetch.result.success

(***************************************************************************)
(* SpecStart: one run of start() (lines 54-85), every launch and           *)
(* new_context call a step that returns or raises.  The position in the    *)
(* two nested loops is read off the pools: the outer loop is at browser    *)
(* Len(browser_pool), the inner one has made ContextsOfLast contexts.       *)
(***************************************************************************)
InitStart ==
    /\ caller = "search_multiple_businesses"
    /\ business_names = << >>
    /\ batch_size = 0
    /\ max_concurrent \in 1..MaxPermits
    /\ browser_pool_size \in 0..MaxPool
    /\ InitScraper
    /\ NoneFollowed

StartUnchanged ==
    UNCHANGED << config, sem, batch_i, batches, all_results, pauses, closes, now,
                 task, pages, followed >>

\* The contexts made on the browser launched last.
ContextsOfLast ==
    Cardinality({ c \in DOMAIN context_pool :
                    context_pool[c].browser = Len(browser_pool) })

\* The inner loop of lines 78-83 is over (or no browser was launched yet).
InnerLoopOver ==
    IF browser_pool = << >> THEN TRUE
    ELSE ContextsOfLast = contexts_per_browser(max_concurrent, browser_pool_size)

Starting == orch \in {"new", "starting"}

\* lines 59-74: the next browser is launched
LaunchBrowser ==
    /\ Starting
    /\ InnerLoopOver
    /\ Len(browser_pool) < browser_pool_size
    /\ browser_pool' = Append(browser_pool, [open |-> TRUE])
    /\ orch' = "starting"
    /\ UNCHANGED << context_pool, raised >>
    /\ StartUnchanged

\* lines 76-83: the next context of the browser launched last is made
NewContext ==
    /\ orch = "starting"
    /\ ~InnerLoopOver
    /\ context_pool' = Append(context_pool,
                              [browser |-> Len(browser_pool), open |-> TRUE])
    /\ UNCHANGED << browser_pool, orch, raised >>
    /\ StartUnchanged

\* The call that is next (a launch or a new_context) raises: start() has no
\* handler, the exception leaves it.
StartCallRaises ==
    /\ Starting
    /\ ~InnerLoopOver \/ Len(browser_pool) < browser_pool_size
    /\ orch' = "raised"
    /\ raised' = "start"
    /\ UNCHANGED pool
    /\ StartUnchanged

\* line 85: both loops are over, start() returns
StartReturns ==
    /\ Starting
    /\ InnerLoopOver
    /\ Len(browser_pool) = browser_pool_size
    /\ orch' = "entered"
    /\ UNCHANGED << pool, raised >>
    /\ StartUnchanged

NextStart == LaunchBrowser \/ NewContext \/ StartCallRaises \/ StartReturns

SpecStart == InitStart /\ [][NextStart]_vars

\* C22: after start() the pool holds browser_pool_size browsers and
\* browser_pool_size * max(1, max_concurrent // browser_pool_size) contexts;
\* that is at least max_concurrent exactly when browser_pool_size >=
\* max_concurrent or browser_pool_size divides max_concurrent, and 3 contexts
\* for 5 permits with the defaults.
ContextPoolSize ==
    orch = "entered" =>
        /\ Len(browser_pool) = browser_pool_size
        /\ Len(context_pool) =
              IF browser_pool_size = 0 THEN 0
              ELSE browser_pool_size *
                     (IF max_concurrent \div browser_pool_size >= 1
                      THEN max_concurrent \div browser_pool_size ELSE 1)
        /\ (Len(context_pool) >= max_concurrent) =
              (\/ browser_pool_size >= max_concurrent
               \/ (browser_pool_size > 0 /\ max_concurrent % browser_pool_size = 0))
        /\ (max_concurrent = 5 /\ browser_pool_size = 3) => Len(context_pool) = 3

\* start() returned with the defaults: 3 browsers of one context each, for 5
\* permits.
ContextPoolSizeWitness ==
    /\ orch = "entered"
    /\ max_concurrent = MAX_CONCURRENT_SEARCHES
    /\ browser_pool_size = BROWSER_POOL_SIZE
    /\ Len(context_pool) = 3
    /\ Len(context_pool) < max_concurrent

\* The task navigated, submitted, ran the detector and read the content: no
\* call before finally raised.
ContentExtracted ==
    /\ fetch.fault = "none"
    /\ fetch.gotos = 1
    /\ fetch.search_clicked
    /\ fetch.detector = 1
    /\ fetch.pc \in {"finally", "done"}

\* C23: when page.close() raises after the content was extracted, the one
\* outcome of the task is a failure with html_content "" and the close
\* error's message, and the permit is released; until close() is called the
\* success with the content is on its way out.
CloseFailureDiscardsContent ==
    /\ (ContentExtracted /\ fetch.pc = "finally") =>
          /\ fetch.pending.success
          /\ fetch.pending.html_content = PAGE_CONTENT
          /\ fetch.result = NoValue
    /\ (ContentExtracted /\ FetchDone) =>
          /\ fetch.closed = 1
          /\ semaphore = max_concurrent
          /\ IF fetch.close_raised
             THEN /\ ~fetch.result.success
                  /\ fetch.result.html_content = ""
                  /\ fetch.result.error_message = "close"
                  /\ fetch.result.business_name = fetch.business_name
             ELSE /\ fetch.result.success
                  /\ fetch.result.html_content = PAGE_CONTENT

\* The content was extracted, close() raised, the task returned a failure and
\* released the permit.
CloseFailureDiscardsContentWitness ==
    /\ FetchDone
    /\ ContentExtracted
    /\ fetch.close_raised
    /\ ~fetch.result.success
    /\ semaphore = max_concurrent

=============================================================================
